---- MODULE Spec2Model ----
(***************************************************************************)
(* Model of src/app.py: the in-memory task-graph store (class GraphData,   *)
(* the module-level singleton graph_data) and the Flask handlers that      *)
(* drive it.                                                               *)
(*                                                                         *)
(* A Python dict is a function whose DOMAIN is its key set; a JSON object  *)
(* is a function from field names to values.  Strings that the code        *)
(* inspects character by character (a node name, which the handler         *)
(* strips) are sequences of one-character strings.                         *)
(***************************************************************************)
EXTENDS Integers, Sequences, FiniteSets, TLC

VARIABLES
    graph_data,   \* the GraphData singleton: nodes_dict, edges_dict, node_counter, edge_counter
    response,     \* the response of the request handled last
    issued,       \* history: largest id handed out by add_node / add_edge since construction
    epoch,        \* history: the same, since the most recent clear_all
    nreq,         \* history: number of requests handled so far
    bare_weight,  \* history: some update_edge supplied weight without duration
    pc,           \* per server thread: position inside add_node / add_edge
    frame,        \* per server thread: the locals of the call in progress
    handed,       \* history: ids returned by the calls the threads completed
    overlapped    \* history: some call ran while another call was in progress

vars == <<graph_data, response, issued, epoch, nreq, bare_weight,
          pc, frame, handed, overlapped>>

\* what only the single-threaded server writes, and what only the threads write
reqvars == <<response, issued, epoch, nreq, bare_weight>>
thrvars == <<pc, frame, handed, overlapped>>

-----------------------------------------------------------------------------
(* Bounds of the model *)

\* requests handled in one run of the single-threaded server
MaxRequests == 5

\* calls each thread of the multi-threaded server makes
MaxCalls == 2
\* calls into the store the two threads make in all when nodes are deleted
MaxRaceCalls == 4

-----------------------------------------------------------------------------
(* Python values *)

\* None, as returned by dict.get and by the store for "not found"
None == [none |-> TRUE]

\* dict.update(u): every key of u is set, the other keys keep their value
DictUpdate(d, u) ==
    [k \in DOMAIN d \cup DOMAIN u |-> IF k \in DOMAIN u THEN u[k] ELSE d[k]]

\* d[key] = value on a dict of records
DictPut(d, key, value) ==
    [k \in DOMAIN d \cup {key} |-> IF k = key THEN value ELSE d[k]]

\* del d[key] for every key in keys
DictDel(d, keys) == [k \in DOMAIN d \ keys |-> d[k]]

\* d.get(key, default)
DictGet(d, key, default) == IF key \in DOMAIN d THEN d[key] ELSE default

\* truth value of an Optional[dict]: None and {} are false
Truthy(v) == v /= None /\ DOMAIN v /= {}

Whitespace == {" "}

RECURSIVE lstrip(_)
lstrip(s) ==
    IF s /= <<>> /\ Head(s) \in Whitespace THEN lstrip(Tail(s)) ELSE s

RECURSIVE rstrip(_)
rstrip(s) ==
    IF s /= <<>> /\ s[Len(s)] \in Whitespace
    THEN rstrip(SubSeq(s, 1, Len(s) - 1))
    ELSE s

\* str.strip()
strip(s) == rstrip(lstrip(s))

RECURSIVE SumOver(_, _, _)
\* sum(d[k].get(field, 0) for k in keys)
SumOver(d, keys, field) ==
    IF keys = {} THEN 0
    ELSE LET k == CHOOSE i \in keys : TRUE
         IN  DictGet(d[k], field, 0) + SumOver(d, keys \ {k}, field)

-----------------------------------------------------------------------------
(* class GraphData *)

\* GraphData.__init__
GraphData ==
    [nodes_dict |-> <<>>, edges_dict |-> <<>>, node_counter |-> 1, edge_counter |-> 1]

\* the dict literal of add_node
node_properties(id, name, x, y) ==
    [id |-> id, name |-> name, x |-> x, y |-> y,
     created_at |-> None, metadata |-> <<>>]

\* the dict literal of add_edge
edge_properties(id, from_node, to_node, duration, cost, prerequisites, postrequisites) ==
    [id |-> id, from |-> from_node, to |-> to_node, duration |-> duration,
     cost |-> cost, prerequisites |-> prerequisites,
     postrequisites |-> postrequisites, weight |-> duration, metadata |-> <<>>]

\* Each method is an operator from the store (and the arguments) to the
\* store after the call (g) and the value returned (ret).

get_nodes_list(g) == {g.nodes_dict[k] : k \in DOMAIN g.nodes_dict}

get_edges_list(g) == {g.edges_dict[k] : k \in DOMAIN g.edges_dict}

\* add_node taking the id from the number of nodes stored
add_node_by_size(g, name, x, y) ==
    LET id    == Cardinality(DOMAIN g.nodes_dict) + 1
        props == node_properties(id, name, x, y)
    IN  [g   |-> [g EXCEPT !.nodes_dict = DictPut(@, id, props),
                           !.node_counter = id + 1],
         ret |-> props]

add_node(g, name, x, y) ==
    LET props == node_properties(g.node_counter, name, x, y)
    IN  [g   |-> [g EXCEPT !.nodes_dict = DictPut(@, g.node_counter, props),
                           !.node_counter = @ + 1],
         ret |-> props]

\* update_node creating the record when the id is not stored
update_node_upsert(g, node_id, updates) ==
    LET old    == DictGet(g.nodes_dict, node_id, <<>>)
        merged == DictUpdate(old, updates)
    IN  [g   |-> [g EXCEPT !.nodes_dict = DictPut(@, node_id, merged)],
         ret |-> merged]

update_node(g, node_id, updates) ==
    IF node_id \in DOMAIN g.nodes_dict
    THEN LET merged == DictUpdate(g.nodes_dict[node_id], updates)
         IN  [g   |-> [g EXCEPT !.nodes_dict = DictPut(@, node_id, merged)],
              ret |-> merged]
    ELSE [g |-> g, ret |-> None]

\* the cascade of delete_node looking at the origin of an edge only
edges_to_remove_by_origin(edges, node_id) ==
    {edge_id \in DOMAIN edges : edges[edge_id]["from"] = node_id}

\* the list comprehension of delete_node, evaluated on the edges at that moment
edges_to_remove(edges, node_id) ==
    {edge_id \in DOMAIN edges :
        edges[edge_id]["from"] = node_id \/ edges[edge_id]["to"] = node_id}

\* delete_node dropping every edge
delete_node_all_edges(g, node_id) ==
    IF node_id \in DOMAIN g.nodes_dict
    THEN [g   |-> [g EXCEPT !.nodes_dict = DictDel(@, {node_id}),
                            !.edges_dict = <<>>],
          ret |-> TRUE]
    ELSE [g |-> g, ret |-> FALSE]

delete_node(g, node_id) ==
    IF node_id \in DOMAIN g.nodes_dict
    THEN [g   |-> [g EXCEPT !.nodes_dict = DictDel(@, {node_id}),
                            !.edges_dict = DictDel(@, edges_to_remove(@, node_id))],
          ret |-> TRUE]
    ELSE [g |-> g, ret |-> FALSE]

\* add_edge leaving the edge counter where it was
add_edge_keep_counter(g, from_node, to_node, duration, cost, prerequisites, postrequisites) ==
    IF from_node \notin DOMAIN g.nodes_dict \/ to_node \notin DOMAIN g.nodes_dict
    THEN [g |-> g, ret |-> None]
    ELSE LET props == edge_properties(g.edge_counter, from_node, to_node, duration,
                                      cost, prerequisites, postrequisites)
         IN  [g   |-> [g EXCEPT !.edges_dict = DictPut(@, g.edge_counter, props)],
              ret |-> props]

\* add_edge checking the origin only
add_edge_origin_only(g, from_node, to_node, duration, cost, prerequisites, postrequisites) ==
    IF from_node \notin DOMAIN g.nodes_dict
    THEN [g |-> g, ret |-> None]
    ELSE LET props == edge_properties(g.edge_counter, from_node, to_node, duration,
                                      cost, prerequisites, postrequisites)
         IN  [g   |-> [g EXCEPT !.edges_dict = DictPut(@, g.edge_counter, props),
                                !.edge_counter = @ + 1],
              ret |-> props]

add_edge(g, from_node, to_node, duration, cost, prerequisites, postrequisites) ==
    IF from_node \notin DOMAIN g.nodes_dict \/ to_node \notin DOMAIN g.nodes_dict
    THEN [g |-> g, ret |-> None]
    ELSE LET props == edge_properties(g.edge_counter, from_node, to_node, duration,
                                      cost, prerequisites, postrequisites)
         IN  [g   |-> [g EXCEPT !.edges_dict = DictPut(@, g.edge_counter, props),
                                !.edge_counter = @ + 1],
              ret |-> props]

\* update_edge setting weight from duration before the merge, so that a
\* weight in the update wins
update_edge_weight_first(g, edge_id, updates) ==
    IF edge_id \in DOMAIN g.edges_dict
    THEN LET synced == IF "duration" \in DOMAIN updates
                       THEN DictUpdate(g.edges_dict[edge_id],
                                       [weight |-> updates["duration"]])
                       ELSE g.edges_dict[edge_id]
             final  == DictUpdate(synced, updates)
         IN  [g   |-> [g EXCEPT !.edges_dict = DictPut(@, edge_id, final)],
              ret |-> final]
    ELSE [g |-> g, ret |-> None]

\* update_edge replacing the record by the update
update_edge_replace(g, edge_id, updates) ==
    IF edge_id \in DOMAIN g.edges_dict
    THEN LET final == IF "duration" \in DOMAIN updates
                      THEN DictUpdate(updates, [weight |-> updates["duration"]])
                      ELSE updates
         IN  [g   |-> [g EXCEPT !.edges_dict = DictPut(@, edge_id, final)],
              ret |-> final]
    ELSE [g |-> g, ret |-> None]

update_edge(g, edge_id, updates) ==
    IF edge_id \in DOMAIN g.edges_dict
    THEN LET merged == DictUpdate(g.edges_dict[edge_id], updates)
             final  == IF "duration" \in DOMAIN updates
                       THEN DictUpdate(merged, [weight |-> updates["duration"]])
                       ELSE merged
         IN  [g   |-> [g EXCEPT !.edges_dict = DictPut(@, edge_id, final)],
              ret |-> final]
    ELSE [g |-> g, ret |-> None]

delete_edge(g, edge_id) ==
    IF edge_id \in DOMAIN g.edges_dict
    THEN [g |-> [g EXCEPT !.edges_dict = DictDel(@, {edge_id})], ret |-> TRUE]
    ELSE [g |-> g, ret |-> FALSE]

get_node_by_id(g, node_id) == DictGet(g.nodes_dict, node_id, None)

get_edge_by_id(g, edge_id) == DictGet(g.edges_dict, edge_id, None)

\* clear_all leaving the counters where they are
clear_all_keep_counters(g) ==
    [g EXCEPT !.nodes_dict = <<>>, !.edges_dict = <<>>]

clear_all(g) ==
    [g EXCEPT !.nodes_dict = <<>>, !.edges_dict = <<>>,
              !.node_counter = 1, !.edge_counter = 1]

\* graph_data = GraphData()
InitStore == graph_data = GraphData

-----------------------------------------------------------------------------
(* The request bodies the model sends *)

\* request.get_json(): no JSON body, or the JSON object d
NoJson == [has |-> FALSE, d |-> <<>>]
Json(d) == [has |-> TRUE, d |-> d]

\* "if not data": None and the empty object are both false
NotData(data) == ~data.has \/ DOMAIN data.d = {}

\* float(v) of a JSON number: the same number (Python compares int and float by value)
float(v) == v

\* POST /api/nodes: no body, no name, a blank name, a name with its x
NodePostBodies ==
    { NoJson,
      Json([x |-> 5]),
      Json([name |-> <<" ", " ">>]),
      Json([name |-> <<" ", "A", " ">>, x |-> 5]) }

\* PUT /api/nodes/<id>: no body, a known and an unknown field, the id field
NodePutBodies ==
    { NoJson,
      Json([x |-> 7, color |-> "red"]),
      Json([id |-> 1]) }

\* POST /api/edges: no body, an endpoint missing, endpoints ids with and
\* without the optional fields
EdgePostBodies(ids) ==
    { NoJson, Json([from |-> 1]), Json([to |-> 1]) }
    \cup { Json([from |-> f, to |-> t]) : f \in ids, t \in ids }
    \cup { Json([from |-> f, to |-> t, duration |-> 3, cost |-> 10,
                 prerequisites |-> "p"]) : f \in ids, t \in ids }

\* PUT /api/edges/<id>: no body, duration with and without weight, weight
\* alone, cost and an unknown field, the id field, a new endpoint
EdgePutBodies(ids) ==
    { NoJson,
      Json([duration |-> 5, weight |-> 9]),
      Json([duration |-> 5]),
      Json([weight |-> 9]),
      Json([cost |-> 2, note |-> "n"]),
      Json([id |-> 1]) }
    \cup { Json([to |-> t]) : t \in ids }
    \cup { Json([from |-> t]) : t \in ids }

\* ids a request may name: every id handed out so far and the next, unused one
NodeIds == 1 .. graph_data.node_counter
EdgeIds == 1 .. graph_data.edge_counter

-----------------------------------------------------------------------------
(* The Flask handlers, one request at a time *)

Max(a, b) == IF a >= b THEN a ELSE b

\* What one handled request leaves behind: the store, the response (with the
\* request it answers and ret, the value the store call returned to the
\* handler, None when no call was made), and the history of the ids handed out
\* (a 201 response carries the created record).
Reply(op, id, data, g, ret, status, body) ==
    /\ nreq < MaxRequests
    /\ graph_data' = g
    /\ response' = [op |-> op, id |-> id, data |-> data, ret |-> ret,
                    status |-> status, body |-> body]
    /\ nreq' = nreq + 1
    /\ issued' =
          IF status = 201 /\ op = "POST nodes" THEN [issued EXCEPT !.node = Max(@, body["id"])]
          ELSE IF status = 201 /\ op = "POST edges" THEN [issued EXCEPT !.edge = Max(@, body["id"])]
          ELSE issued
    /\ epoch' =
          IF op = "POST clear" THEN [node |-> 0, edge |-> 0]
          ELSE IF status = 201 /\ op = "POST nodes" THEN [epoch EXCEPT !.node = Max(@, body["id"])]
          ELSE IF status = 201 /\ op = "POST edges" THEN [epoch EXCEPT !.edge = Max(@, body["id"])]
          ELSE epoch
    /\ bare_weight' =
          (bare_weight \/ (op = "PUT edge" /\ status = 200
                           /\ "weight" \in DOMAIN data.d /\ "duration" \notin DOMAIN data.d))
    /\ UNCHANGED thrvars

Error(msg) == [error |-> msg]
Success(msg) == [success |-> TRUE, message |-> msg]

\* GET /api/nodes
handle_nodes_GET ==
    Reply("GET nodes", 0, NoJson, graph_data, get_nodes_list(graph_data), 200,
          get_nodes_list(graph_data))

\* POST /api/nodes
handle_nodes_POST(data) ==
    IF NotData(data)
    THEN Reply("POST nodes", 0, data, graph_data, None, 400,
               Error("No se proporcionaron datos"))
    ELSE LET name == strip(DictGet(data.d, "name", <<>>))
         IN  IF name = <<>>
             THEN Reply("POST nodes", 0, data, graph_data, None, 400,
                        Error("El nombre del nodo es requerido"))
             ELSE LET new_node == add_node(graph_data, name,
                                           DictGet(data.d, "x", 100),
                                           DictGet(data.d, "y", 100))
                  IN  Reply("POST nodes", 0, data, new_node.g, new_node.ret, 201, new_node.ret)

\* GET /api/nodes/<node_id>
handle_node_GET(node_id) ==
    LET node == get_node_by_id(graph_data, node_id)
    IN  IF Truthy(node)
        THEN Reply("GET node", node_id, NoJson, graph_data, node, 200, node)
        ELSE Reply("GET node", node_id, NoJson, graph_data, node, 404,
                   Error("Nodo no encontrado"))

\* PUT /api/nodes/<node_id>
handle_node_PUT(node_id, data) ==
    IF NotData(data)
    THEN Reply("PUT node", node_id, data, graph_data, None, 400,
               Error("No se proporcionaron datos"))
    ELSE LET updated_node == update_node(graph_data, node_id, data.d)
         IN  IF Truthy(updated_node.ret)
             THEN Reply("PUT node", node_id, data, updated_node.g, updated_node.ret, 200,
                        updated_node.ret)
             ELSE Reply("PUT node", node_id, data, updated_node.g, updated_node.ret, 404,
                        Error("Nodo no encontrado"))

\* DELETE /api/nodes/<node_id>
handle_node_DELETE(node_id) ==
    LET success == delete_node(graph_data, node_id)
    IN  IF success.ret
        THEN Reply("DELETE node", node_id, NoJson, success.g, success.ret, 200,
                   Success("Nodo eliminado correctamente"))
        ELSE Reply("DELETE node", node_id, NoJson, success.g, success.ret, 404,
                   Error("Nodo no encontrado"))

\* GET /api/edges
handle_edges_GET ==
    Reply("GET edges", 0, NoJson, graph_data, get_edges_list(graph_data), 200,
          get_edges_list(graph_data))

\* POST /api/edges
handle_edges_POST(data) ==
    IF NotData(data)
    THEN Reply("POST edges", 0, data, graph_data, None, 400,
               Error("No se proporcionaron datos"))
    ELSE IF "from" \notin DOMAIN data.d \/ "to" \notin DOMAIN data.d
         THEN Reply("POST edges", 0, data, graph_data, None, 400,
                    Error("Se requieren nodos origen y destino"))
         ELSE LET new_edge == add_edge(graph_data, data.d["from"], data.d["to"],
                                       float(DictGet(data.d, "duration", 0)),
                                       float(DictGet(data.d, "cost", 0)),
                                       DictGet(data.d, "prerequisites", ""),
                                       DictGet(data.d, "postrequisites", ""))
              IN  IF Truthy(new_edge.ret)
                  THEN Reply("POST edges", 0, data, new_edge.g, new_edge.ret, 201, new_edge.ret)
                  ELSE Reply("POST edges", 0, data, new_edge.g, new_edge.ret, 400,
                             Error("No se pudo crear la arista. Verifica que los nodos existan"))

\* GET /api/edges/<edge_id>
handle_edge_GET(edge_id) ==
    LET edge == get_edge_by_id(graph_data, edge_id)
    IN  IF Truthy(edge)
        THEN Reply("GET edge", edge_id, NoJson, graph_data, edge, 200, edge)
        ELSE Reply("GET edge", edge_id, NoJson, graph_data, edge, 404,
                   Error("Arista no encontrada"))

\* the two "if ... in data: data[...] = float(data[...])" of PUT /api/edges/<edge_id>
coerce(d) ==
    [k \in DOMAIN d |-> IF k \in {"duration", "cost"} THEN float(d[k]) ELSE d[k]]

\* PUT /api/edges/<edge_id>
handle_edge_PUT(edge_id, data) ==
    IF NotData(data)
    THEN Reply("PUT edge", edge_id, data, graph_data, None, 400,
               Error("No se proporcionaron datos"))
    ELSE LET updated_edge == update_edge(graph_data, edge_id, coerce(data.d))
         IN  IF Truthy(updated_edge.ret)
             THEN Reply("PUT edge", edge_id, data, updated_edge.g, updated_edge.ret, 200,
                        updated_edge.ret)
             ELSE Reply("PUT edge", edge_id, data, updated_edge.g, updated_edge.ret, 404,
                        Error("Arista no encontrada"))

\* DELETE /api/edges/<edge_id>
handle_edge_DELETE(edge_id) ==
    LET success == delete_edge(graph_data, edge_id)
    IN  IF success.ret
        THEN Reply("DELETE edge", edge_id, NoJson, success.g, success.ret, 200,
                   Success("Arista eliminada correctamente"))
        ELSE Reply("DELETE edge", edge_id, NoJson, success.g, success.ret, 404,
                   Error("Arista no encontrada"))

\* POST /api/graph/clear
clear_graph ==
    Reply("POST clear", 0, NoJson, clear_all(graph_data), None, 200,
          Success("Grafo limpiado correctamente"))

\* the stats dict adding up weight for total_duration
stats_by_weight(g) ==
    [total_nodes    |-> Cardinality(DOMAIN g.nodes_dict),
     total_edges    |-> Cardinality(DOMAIN g.edges_dict),
     next_node_id   |-> g.node_counter,
     next_edge_id   |-> g.edge_counter,
     total_cost     |-> SumOver(g.edges_dict, DOMAIN g.edges_dict, "cost"),
     total_duration |-> SumOver(g.edges_dict, DOMAIN g.edges_dict, "weight")]

\* the stats dict of GET /api/graph/stats
stats(g) ==
    [total_nodes    |-> Cardinality(DOMAIN g.nodes_dict),
     total_edges    |-> Cardinality(DOMAIN g.edges_dict),
     next_node_id   |-> g.node_counter,
     next_edge_id   |-> g.edge_counter,
     total_cost     |-> SumOver(g.edges_dict, DOMAIN g.edges_dict, "cost"),
     total_duration |-> SumOver(g.edges_dict, DOMAIN g.edges_dict, "duration")]

\* GET /api/graph/stats
get_graph_stats ==
    Reply("GET stats", 0, NoJson, graph_data, None, 200, stats(graph_data))

-----------------------------------------------------------------------------
(* The single-threaded server: requests are handled one after the other *)

\* the threads of a multi-threaded server (app.run serves one request per thread)
Threads == {1, 2}

\* the locals of a call: calls counts the calls the thread has made
NoFrame(n) == [calls |-> n, args |-> <<>>, props |-> <<>>, key |-> 0, tmp |-> 0]

NoResponse ==
    [op |-> "none", id |-> 0, data |-> NoJson, ret |-> None, status |-> 0, body |-> <<>>]

Init ==
    /\ InitStore
    /\ response = NoResponse
    /\ issued = [node |-> 0, edge |-> 0]
    /\ epoch = [node |-> 0, edge |-> 0]
    /\ nreq = 0
    /\ bare_weight = FALSE
    /\ pc = [t \in Threads |-> "idle"]
    /\ frame = [t \in Threads |-> NoFrame(0)]
    /\ handed = [node |-> <<>>, edge |-> <<>>, torn |-> FALSE]
    /\ overlapped = FALSE

Next ==
    \/ handle_nodes_GET
    \/ \E data \in NodePostBodies : handle_nodes_POST(data)
    \/ \E node_id \in NodeIds : handle_node_GET(node_id)
    \/ \E node_id \in NodeIds, data \in NodePutBodies : handle_node_PUT(node_id, data)
    \/ \E node_id \in NodeIds : handle_node_DELETE(node_id)
    \/ handle_edges_GET
    \/ \E data \in EdgePostBodies(NodeIds) : handle_edges_POST(data)
    \/ \E edge_id \in EdgeIds : handle_edge_GET(edge_id)
    \/ \E edge_id \in EdgeIds, data \in EdgePutBodies(NodeIds) : handle_edge_PUT(edge_id, data)
    \/ \E edge_id \in EdgeIds : handle_edge_DELETE(edge_id)
    \/ clear_graph
    \/ get_graph_stats

Spec == Init /\ [][Next]_vars

-----------------------------------------------------------------------------
(* The multi-threaded server: GraphData has no lock, so two calls into the  *)
(* store interleave between any two reads or writes of its attributes.      *)
(* Each action below is one such read or write of add_node or add_edge.     *)

Goto(t, label) == pc' = [pc EXCEPT ![t] = label]

\* a thread enters a call; the history notes whether another call is in progress
Enter(t, label, args) ==
    /\ pc[t] = "idle"
    /\ frame[t].calls < MaxCalls
    /\ Goto(t, label)
    /\ frame' = [frame EXCEPT ![t] = [NoFrame(@.calls + 1) EXCEPT !.args = args]]
    /\ overlapped' = (overlapped \/ \E u \in Threads \ {t} : pc[u] /= "idle")
    /\ UNCHANGED <<graph_data, handed, reqvars>>

\* a thread returns from a call; the history notes the id of the record returned
Return(t, kind, ret) ==
    /\ Goto(t, "idle")
    /\ frame' = [frame EXCEPT ![t] = NoFrame(@.calls)]
    /\ handed' = IF ret = None THEN handed
                 ELSE [handed EXCEPT ![kind] = Append(@, ret["id"])]

\* a step that reads the store into a local, and a step that writes the store
Local(t) == UNCHANGED <<graph_data, handed, overlapped, reqvars>>
Shared(t) == UNCHANGED <<handed, overlapped, reqvars>>

call_add_node(t) == Enter(t, "node_props", [name |-> <<"A">>, x |-> 100, y |-> 100])

\* node_properties = {'id': self.node_counter, ...}
add_node_props(t) ==
    /\ pc[t] = "node_props"
    /\ frame' = [frame EXCEPT ![t].props =
                    node_properties(graph_data.node_counter, frame[t].args.name,
                                    frame[t].args.x, frame[t].args.y)]
    /\ Goto(t, "node_key")
    /\ Local(t)

\* self.nodes_dict[self.node_counter] = ...: the subscript is read
add_node_key(t) ==
    /\ pc[t] = "node_key"
    /\ frame' = [frame EXCEPT ![t].key = graph_data.node_counter]
    /\ Goto(t, "node_store")
    /\ Local(t)

\* self.nodes_dict[...] = node_properties: the record is stored
add_node_store(t) ==
    /\ pc[t] = "node_store"
    /\ graph_data' = [graph_data EXCEPT
                        !.nodes_dict = DictPut(@, frame[t].key, frame[t].props)]
    /\ Goto(t, "node_load")
    /\ UNCHANGED frame
    /\ Shared(t)

\* self.node_counter += 1: the counter is read
add_node_load(t) ==
    /\ pc[t] = "node_load"
    /\ frame' = [frame EXCEPT ![t].tmp = graph_data.node_counter]
    /\ Goto(t, "node_incr")
    /\ Local(t)

\* the last step of add_node writing the counter back as it was read
add_node_incr_lost(t) ==
    /\ pc[t] = "node_incr"
    /\ graph_data' = [graph_data EXCEPT !.node_counter = frame[t].tmp]
    /\ Return(t, "node", frame[t].props)
    /\ UNCHANGED <<overlapped, reqvars>>

\* self.node_counter += 1: the sum is written; return node_properties
add_node_incr(t) ==
    /\ pc[t] = "node_incr"
    /\ graph_data' = [graph_data EXCEPT !.node_counter = frame[t].tmp + 1]
    /\ Return(t, "node", frame[t].props)
    /\ UNCHANGED <<overlapped, reqvars>>

call_add_edge(t, from_node, to_node) ==
    Enter(t, "edge_check", [from_node |-> from_node, to_node |-> to_node])

\* if from_node not in self.nodes_dict or to_node not in self.nodes_dict: return None
add_edge_check(t) ==
    /\ pc[t] = "edge_check"
    /\ IF \/ frame[t].args.from_node \notin DOMAIN graph_data.nodes_dict
          \/ frame[t].args.to_node \notin DOMAIN graph_data.nodes_dict
       THEN Return(t, "edge", None)
       ELSE /\ Goto(t, "edge_props")
            /\ UNCHANGED <<frame, handed>>
    /\ UNCHANGED <<graph_data, overlapped, reqvars>>

\* edge_properties = {'id': self.edge_counter, ...}
add_edge_props(t) ==
    /\ pc[t] = "edge_props"
    /\ frame' = [frame EXCEPT ![t].props =
                    edge_properties(graph_data.edge_counter, frame[t].args.from_node,
                                    frame[t].args.to_node, 0, 0, "", "")]
    /\ Goto(t, "edge_key")
    /\ Local(t)

\* self.edges_dict[self.edge_counter] = ...: the subscript is read
add_edge_key(t) ==
    /\ pc[t] = "edge_key"
    /\ frame' = [frame EXCEPT ![t].key = graph_data.edge_counter]
    /\ Goto(t, "edge_store")
    /\ Local(t)

\* self.edges_dict[...] = edge_properties: the record is stored
add_edge_store(t) ==
    /\ pc[t] = "edge_store"
    /\ graph_data' = [graph_data EXCEPT
                        !.edges_dict = DictPut(@, frame[t].key, frame[t].props)]
    /\ Goto(t, "edge_load")
    /\ UNCHANGED frame
    /\ Shared(t)

\* self.edge_counter += 1: the counter is read
add_edge_load(t) ==
    /\ pc[t] = "edge_load"
    /\ frame' = [frame EXCEPT ![t].tmp = graph_data.edge_counter]
    /\ Goto(t, "edge_incr")
    /\ Local(t)

\* self.edge_counter += 1: the sum is written; return edge_properties
add_edge_incr(t) ==
    /\ pc[t] = "edge_incr"
    /\ graph_data' = [graph_data EXCEPT !.edge_counter = frame[t].tmp + 1]
    /\ Return(t, "edge", frame[t].props)
    /\ UNCHANGED <<overlapped, reqvars>>

NextThreads ==
    \E t \in Threads :
        \/ call_add_node(t)
        \/ add_node_props(t)
        \/ add_node_key(t)
        \/ add_node_store(t)
        \/ add_node_load(t)
        \/ add_node_incr(t)
        \/ \E from_node \in NodeIds, to_node \in NodeIds : call_add_edge(t, from_node, to_node)
        \/ add_edge_check(t)
        \/ add_edge_props(t)
        \/ add_edge_key(t)
        \/ add_edge_store(t)
        \/ add_edge_load(t)
        \/ add_edge_incr(t)

SpecThreads == Init /\ [][NextThreads]_vars

-----------------------------------------------------------------------------
(* The multi-threaded server when records are deleted as well: the calls of *)
(* add_node, add_edge, delete_node and delete_edge of two threads           *)
(* interleave between any two statements that read or write the store,      *)
(* while a reader lists the edges.                                          *)

\* as Enter, the two threads making MaxRaceCalls calls in all
Begin(t, label, args) ==
    /\ pc[t] = "idle"
    /\ frame[1].calls + frame[2].calls < MaxRaceCalls
    /\ Goto(t, label)
    /\ frame' = [frame EXCEPT ![t] = [NoFrame(@.calls + 1) EXCEPT !.args = args]]
    /\ overlapped' = (overlapped \/ \E u \in Threads \ {t} : pc[u] /= "idle")
    /\ UNCHANGED <<graph_data, handed, reqvars>>

begin_add_node(t) == Begin(t, "node_props", [name |-> <<"A">>, x |-> 100, y |-> 100])

begin_add_edge(t, from_node, to_node) ==
    Begin(t, "edge_check", [from_node |-> from_node, to_node |-> to_node])

begin_delete_node(t, node_id) == Begin(t, "delete_node_check", [node_id |-> node_id])

\* if node_id in self.nodes_dict: ... return False
delete_node_check(t) ==
    /\ pc[t] = "delete_node_check"
    /\ IF frame[t].args.node_id \in DOMAIN graph_data.nodes_dict
       THEN /\ Goto(t, "delete_node_del")
            /\ UNCHANGED <<frame, handed>>
       ELSE Return(t, "node", None)
    /\ UNCHANGED <<graph_data, overlapped, reqvars>>

\* del self.nodes_dict[node_id]: a KeyError ends the call if another call
\* has removed the node since the check
delete_node_del(t) ==
    /\ pc[t] = "delete_node_del"
    /\ IF frame[t].args.node_id \in DOMAIN graph_data.nodes_dict
       THEN /\ graph_data' = [graph_data EXCEPT
                                !.nodes_dict = DictDel(@, {frame[t].args.node_id})]
            /\ Goto(t, "delete_node_scan")
            /\ UNCHANGED <<frame, handed>>
       ELSE /\ Return(t, "node", None)
            /\ UNCHANGED graph_data
    /\ UNCHANGED <<overlapped, reqvars>>

\* the scan of delete_node finding no edge to remove
delete_node_scan_nothing(t) ==
    /\ pc[t] = "delete_node_scan"
    /\ frame' = [frame EXCEPT ![t].props = {}]
    /\ Goto(t, "delete_node_edges")
    /\ Local(t)

\* edges_to_remove = [edge_id for edge_id, edge in self.edges_dict.items() if ...],
\* taken in one step: the edges stored at that moment
delete_node_scan(t) ==
    /\ pc[t] = "delete_node_scan"
    /\ frame' = [frame EXCEPT ![t].props =
                    edges_to_remove(graph_data.edges_dict, frame[t].args.node_id)]
    /\ Goto(t, "delete_node_edges")
    /\ Local(t)

\* for edge_id in edges_to_remove: del self.edges_dict[edge_id], one edge a
\* step, a KeyError ending the call if another call has removed the edge
\* since the scan; return True after the last
delete_node_edges(t) ==
    /\ pc[t] = "delete_node_edges"
    /\ IF frame[t].props = {}
       THEN /\ Return(t, "node", None)
            /\ UNCHANGED graph_data
       ELSE \E edge_id \in frame[t].props :
              IF edge_id \in DOMAIN graph_data.edges_dict
              THEN /\ graph_data' = [graph_data EXCEPT
                                       !.edges_dict = DictDel(@, {edge_id})]
                   /\ frame' = [frame EXCEPT ![t].props = @ \ {edge_id}]
                   /\ UNCHANGED <<pc, handed>>
              ELSE /\ Return(t, "node", None)
                   /\ UNCHANGED graph_data
    /\ UNCHANGED <<overlapped, reqvars>>

begin_delete_edge(t, edge_id) == Begin(t, "delete_edge_check", [edge_id |-> edge_id])

\* if edge_id in self.edges_dict: ... return False
delete_edge_check(t) ==
    /\ pc[t] = "delete_edge_check"
    /\ IF frame[t].args.edge_id \in DOMAIN graph_data.edges_dict
       THEN /\ Goto(t, "delete_edge_del")
            /\ UNCHANGED <<frame, handed>>
       ELSE Return(t, "edge", None)
    /\ UNCHANGED <<graph_data, overlapped, reqvars>>

\* del self.edges_dict[edge_id]; return True: a KeyError ends the call if
\* another call has removed the edge since the check
delete_edge_del(t) ==
    /\ pc[t] = "delete_edge_del"
    /\ graph_data' = [graph_data EXCEPT
                        !.edges_dict = DictDel(@, {frame[t].args.edge_id})]
    /\ Return(t, "edge", None)
    /\ UNCHANGED <<overlapped, reqvars>>

\* the edges of the store one of whose ends get_node_by_id does not find
unattached(g) ==
    {edge_id \in DOMAIN g.edges_dict :
        \/ get_node_by_id(g, g.edges_dict[edge_id]["from"]) = None
        \/ get_node_by_id(g, g.edges_dict[edge_id]["to"]) = None}

\* a reader lists the edges and looks their ends up, whatever the threads
\* are in the middle of; the history notes whether an end was missing
get_edges_list_read ==
    /\ handed' = [handed EXCEPT !.torn = @ \/ unattached(graph_data) /= {}]
    /\ overlapped' = (overlapped \/ \E u \in Threads : pc[u] /= "idle")
    /\ UNCHANGED <<graph_data, pc, frame, reqvars>>

NextCascade ==
    \/ \E t \in Threads :
        \/ begin_add_node(t)
        \/ add_node_props(t)
        \/ add_node_key(t)
        \/ add_node_store(t)
        \/ add_node_load(t)
        \/ add_node_incr(t)
        \/ \E from_node \in NodeIds, to_node \in NodeIds : begin_add_edge(t, from_node, to_node)
        \/ add_edge_check(t)
        \/ add_edge_props(t)
        \/ add_edge_key(t)
        \/ add_edge_store(t)
        \/ add_edge_load(t)
        \/ add_edge_incr(t)
        \/ \E node_id \in NodeIds : begin_delete_node(t, node_id)
        \/ delete_node_check(t)
        \/ delete_node_del(t)
        \/ delete_node_scan(t)
        \/ delete_node_edges(t)
        \/ \E edge_id \in EdgeIds : begin_delete_edge(t, edge_id)
        \/ delete_edge_check(t)
        \/ delete_edge_del(t)
    \/ get_edges_list_read

SpecCascade == Init /\ [][NextCascade]_vars

-----------------------------------------------------------------------------
(* Properties of the single-threaded server *)

nodes == graph_data.nodes_dict
edges == graph_data.edges_dict

\* the response answers a request of this kind with this status
Answered(r, op, status) == r.op = op /\ r.status = status

(* C1, as claimed: over any sequence of requests, clear included, the id    *)
(* add_node assigns is one more than the largest id any earlier add_node    *)
(* assigned (1 if none), and likewise for add_edge.                         *)
C1_IdAboveAllEarlierIds ==
    [][ /\ Answered(response', "POST nodes", 201)
              => response'.ret["id"] = issued.node + 1
        /\ Answered(response', "POST edges", 201)
              => response'.ret["id"] = issued.edge + 1 ]_vars

(* C1, amended: the id add_node assigns is one more than the largest id     *)
(* assigned by an earlier add_node since the most recent clear (1 if none   *)
(* since then), whatever was deleted or updated in between; likewise for    *)
(* add_edge.  Ids are strictly increasing between two clears.               *)
C1_IdAboveAllIdsSinceClear ==
    [][ /\ Answered(response', "POST nodes", 201)
              => response'.ret["id"] = epoch.node + 1
        /\ Answered(response', "POST edges", 201)
              => response'.ret["id"] = epoch.edge + 1 ]_vars

\* a node is added after a deletion: its id is above the number of nodes stored
C1_AddedAfterDeletion ==
    /\ Answered(response, "POST nodes", 201)
    /\ response.ret["id"] > Cardinality(DOMAIN nodes)
    /\ response.ret["id"] >= 2

(* C2: delete_node(n) of a stored node n returns True and leaves neither    *)
(* node n nor any edge whose from or to is n; delete_node of an id that is  *)
(* not stored returns False.                                                *)
C2_DeleteNodeLeavesNoIncidentEdge ==
    [][ response'.op = "DELETE node" =>
          LET n == response'.id
          IN  IF n \in DOMAIN graph_data.nodes_dict
              THEN /\ response'.ret = TRUE
                   /\ n \notin DOMAIN graph_data'.nodes_dict
                   /\ \A e \in DOMAIN graph_data'.edges_dict :
                         /\ graph_data'.edges_dict[e]["from"] /= n
                         /\ graph_data'.edges_dict[e]["to"] /= n
              ELSE response'.ret = FALSE ]_vars

\* the only node is deleted with two parallel self-loops on it: four
\* requests, two of them edges, and no edge is left
C2_DeletedWithParallelSelfLoops ==
    /\ Answered(response, "DELETE node", 200)
    /\ nreq = 4
    /\ graph_data.edge_counter = 3
    /\ DOMAIN edges = {}

(* C3: add_edge returns None exactly when from or to is not a stored node,  *)
(* and then nodes, edges and both counters are as before (POST /api/edges   *)
(* answers 400); otherwise the edge gets the id the edge counter held.      *)
C3_AddEdgeRejectsMissingEndpoint ==
    [][ ( /\ response'.op = "POST edges"
          /\ {"from", "to"} \subseteq DOMAIN response'.data.d ) =>
          LET from_node == response'.data.d["from"]
              to_node   == response'.data.d["to"]
              missing   == \/ from_node \notin DOMAIN graph_data.nodes_dict
                           \/ to_node \notin DOMAIN graph_data.nodes_dict
          IN  /\ (response'.ret = None) <=> missing
              /\ missing => /\ graph_data' = graph_data
                            /\ response'.status = 400
              /\ ~missing => /\ response'.status = 201
                             /\ response'.ret["id"] = graph_data.edge_counter
                             /\ graph_data'.edge_counter = graph_data.edge_counter + 1 ]_vars

\* an edge from a stored node to an id that is not stored was refused
C3_RefusedMissingTarget ==
    /\ Answered(response, "POST edges", 400)
    /\ {"from", "to"} \subseteq DOMAIN response.data.d
    /\ response.data.d["from"] \in DOMAIN nodes
    /\ response.data.d["to"] \notin DOMAIN nodes
    /\ DOMAIN edges /= {}

(* C4: a created edge has weight = duration; an update_edge whose update    *)
(* names duration leaves the edge with weight = the new duration, also when *)
(* the update names another weight; and as long as no update_edge named     *)
(* weight without duration, every stored edge has weight = duration.        *)
C4_WeightTracksDuration ==
    /\ Answered(response, "POST edges", 201) =>
          /\ response.ret["weight"] = response.ret["duration"]
          /\ response.ret["duration"] = DictGet(response.data.d, "duration", 0)
    /\ ( /\ Answered(response, "PUT edge", 200)
         /\ "duration" \in DOMAIN response.data.d ) =>
          /\ response.ret["duration"] = response.data.d["duration"]
          /\ response.ret["weight"] = response.data.d["duration"]
          /\ edges[response.id]["weight"] = response.data.d["duration"]
    /\ ~bare_weight =>
          \A e \in DOMAIN edges : edges[e]["weight"] = edges[e]["duration"]

\* an update named duration 5 and weight 9 and the edge holds weight 5
C4_DurationBeatsWeight ==
    /\ Answered(response, "PUT edge", 200)
    /\ {"duration", "weight"} \subseteq DOMAIN response.data.d
    /\ response.data.d["weight"] /= response.data.d["duration"]
    /\ edges[response.id]["weight"] = 5
    /\ ~bare_weight

(* C5: clear leaves no node and no edge and both counters at 1, whatever    *)
(* came before; the first node added after it gets id 1 and so does the     *)
(* first edge.                                                              *)
C5_ClearRestartsTheStore ==
    [][ /\ response'.op = "POST clear" =>
              /\ DOMAIN graph_data'.nodes_dict = {}
              /\ DOMAIN graph_data'.edges_dict = {}
              /\ graph_data'.node_counter = 1
              /\ graph_data'.edge_counter = 1
        /\ (epoch.node = 0 /\ Answered(response', "POST nodes", 201))
              => response'.ret["id"] = 1
        /\ (epoch.edge = 0 /\ Answered(response', "POST edges", 201))
              => response'.ret["id"] = 1 ]_vars

\* a node gets id 1 although id 2 had been handed out before: two nodes
\* and an edge were created, the store was cleared, and the ids start again
C5_FirstNodeAfterClear ==
    /\ Answered(response, "POST nodes", 201)
    /\ response.ret["id"] = 1
    /\ issued.node >= 2
    /\ issued.edge >= 1
    /\ DOMAIN edges = {}
    /\ graph_data.edge_counter = 1

RECURSIVE TotalUpTo(_, _, _)
\* the sum of field over the records of d with a key in 1..n
TotalUpTo(d, n, field) ==
    IF n = 0 THEN 0
    ELSE (IF n \in DOMAIN d THEN d[n][field] ELSE 0) + TotalUpTo(d, n - 1, field)

(* C6: the stats response counts the nodes and edges stored, reports both   *)
(* counters, and adds up cost and duration over the edges stored at that    *)
(* moment; answering it leaves the store as it was.                         *)
C6_StatsDescribeTheStore ==
    [][ response'.op = "GET stats" =>
          /\ graph_data' = graph_data
          /\ response'.status = 200
          /\ response'.body["total_nodes"] = Cardinality(DOMAIN graph_data.nodes_dict)
          /\ response'.body["total_edges"] = Cardinality(DOMAIN graph_data.edges_dict)
          /\ response'.body["next_node_id"] = graph_data.node_counter
          /\ response'.body["next_edge_id"] = graph_data.edge_counter
          /\ response'.body["total_cost"] =
                TotalUpTo(graph_data.edges_dict, graph_data.edge_counter, "cost")
          /\ response'.body["total_duration"] =
                TotalUpTo(graph_data.edges_dict, graph_data.edge_counter, "duration") ]_vars

\* stats after two edges were created and one of them deleted: the edge
\* left is the one with cost 10
C6_StatsAfterDeletion ==
    /\ Answered(response, "GET stats", 200)
    /\ response.body["total_edges"] = 1
    /\ response.body["next_edge_id"] = 3
    /\ response.body["total_cost"] = 10
    /\ response.body["total_duration"] = 3

(* C7: a request answered 400 or 404 leaves nodes, edges and both counters  *)
(* as they were, and these requests are answered so: PUT, DELETE and GET of *)
(* an id that is not stored (404; update returns None, delete False), POST  *)
(* /api/nodes without a body or with a name that is empty once stripped     *)
(* (400), POST /api/edges without from or to (400), PUT without a body      *)
(* (400).                                                                   *)
C7_FailedRequestChangesNothing ==
    [][ LET r == response'
            node_absent == r.id \notin DOMAIN graph_data.nodes_dict
            edge_absent == r.id \notin DOMAIN graph_data.edges_dict
        IN  /\ r.status \in {400, 404} => graph_data' = graph_data
            /\ (r.op = "PUT node" /\ ~NotData(r.data) /\ node_absent)
                  => r.status = 404 /\ r.ret = None
            /\ (r.op = "PUT edge" /\ ~NotData(r.data) /\ edge_absent)
                  => r.status = 404 /\ r.ret = None
            /\ (r.op = "DELETE node" /\ node_absent) => r.status = 404 /\ r.ret = FALSE
            /\ (r.op = "DELETE edge" /\ edge_absent) => r.status = 404 /\ r.ret = FALSE
            /\ (r.op = "GET node" /\ node_absent) => r.status = 404
            /\ (r.op = "GET edge" /\ edge_absent) => r.status = 404
            /\ (r.op = "POST nodes" /\ (NotData(r.data)
                                         \/ "name" \notin DOMAIN r.data.d
                                         \/ \A i \in DOMAIN r.data.d["name"] :
                                               r.data.d["name"][i] = " "))
                  => r.status = 400
            /\ (r.op = "POST edges" /\ (NotData(r.data)
                                         \/ "from" \notin DOMAIN r.data.d
                                         \/ "to" \notin DOMAIN r.data.d))
                  => r.status = 400
            /\ (r.op \in {"PUT node", "PUT edge"} /\ NotData(r.data))
                  => r.status = 400 ]_vars

\* a node with a blank name was refused by a store that holds a node and an
\* edge, and the next id is still the one after the last node
C7_BlankNameRefused ==
    /\ Answered(response, "POST nodes", 400)
    /\ "name" \in DOMAIN response.data.d
    /\ DOMAIN nodes /= {}
    /\ DOMAIN edges /= {}
    /\ graph_data.node_counter = epoch.node + 1

(* C8: update_node on a stored node changes, on that record, only the       *)
(* fields the update names (the other fields keep their value, a new name   *)
(* is added with the value given) and leaves every other node, every edge   *)
(* and both counters as they were; update_edge does the same for an edge,   *)
(* where weight alone may change without being named, when duration is.     *)
C8_UpdateTouchesNamedFieldsOnly ==
    [][ /\ Answered(response', "PUT node", 200) =>
              LET id  == response'.id
                  u   == response'.data.d
                  old == graph_data.nodes_dict[id]
                  new == graph_data'.nodes_dict[id]
              IN  /\ DOMAIN new = DOMAIN old \cup DOMAIN u
                  /\ \A k \in DOMAIN old \ DOMAIN u : new[k] = old[k]
                  /\ \A k \in DOMAIN u \ DOMAIN old : new[k] = u[k]
                  /\ DOMAIN graph_data'.nodes_dict = DOMAIN graph_data.nodes_dict
                  /\ \A m \in DOMAIN graph_data.nodes_dict \ {id} :
                        graph_data'.nodes_dict[m] = graph_data.nodes_dict[m]
                  /\ graph_data'.edges_dict = graph_data.edges_dict
                  /\ graph_data'.node_counter = graph_data.node_counter
                  /\ graph_data'.edge_counter = graph_data.edge_counter
        /\ Answered(response', "PUT edge", 200) =>
              LET id  == response'.id
                  u   == response'.data.d
                  old == graph_data.edges_dict[id]
                  new == graph_data'.edges_dict[id]
              IN  /\ DOMAIN new = DOMAIN old \cup DOMAIN u
                  /\ \A k \in DOMAIN old \ DOMAIN u :
                        \/ new[k] = old[k]
                        \/ k = "weight" /\ "duration" \in DOMAIN u
                  /\ \A k \in DOMAIN u \ DOMAIN old : new[k] = u[k]
                  /\ DOMAIN graph_data'.edges_dict = DOMAIN graph_data.edges_dict
                  /\ \A m \in DOMAIN graph_data.edges_dict \ {id} :
                        graph_data'.edges_dict[m] = graph_data.edges_dict[m]
                  /\ graph_data'.nodes_dict = graph_data.nodes_dict
                  /\ graph_data'.node_counter = graph_data.node_counter
                  /\ graph_data'.edge_counter = graph_data.edge_counter ]_vars

\* an edge got an unknown field next to a second edge, and kept its endpoints
C8_EdgeGotUnknownField ==
    /\ Answered(response, "PUT edge", 200)
    /\ "note" \in DOMAIN response.data.d
    /\ "note" \in DOMAIN edges[response.id]
    /\ edges[response.id]["duration"] = 3
    /\ Cardinality(DOMAIN edges) = 2

(* C9: delete_edge of a stored edge returns True and removes that edge and  *)
(* nothing else; delete_node of a stored node removes that node and the     *)
(* edges whose from or to is, at that moment, the node, and nothing else:   *)
(* every other node and edge is as before, and so are both counters.        *)
C9_DeleteRemovesOnlyItsTarget ==
    [][ /\ ( /\ response'.op = "DELETE edge"
             /\ response'.id \in DOMAIN graph_data.edges_dict ) =>
              LET e == response'.id
              IN  /\ response'.ret = TRUE
                  /\ DOMAIN graph_data'.edges_dict = DOMAIN graph_data.edges_dict \ {e}
                  /\ \A k \in DOMAIN graph_data'.edges_dict :
                        graph_data'.edges_dict[k] = graph_data.edges_dict[k]
                  /\ graph_data'.nodes_dict = graph_data.nodes_dict
                  /\ graph_data'.node_counter = graph_data.node_counter
                  /\ graph_data'.edge_counter = graph_data.edge_counter
        /\ ( /\ response'.op = "DELETE node"
             /\ response'.id \in DOMAIN graph_data.nodes_dict ) =>
              LET n == response'.id
              IN  /\ DOMAIN graph_data'.nodes_dict = DOMAIN graph_data.nodes_dict \ {n}
                  /\ \A k \in DOMAIN graph_data'.nodes_dict :
                        graph_data'.nodes_dict[k] = graph_data.nodes_dict[k]
                  /\ DOMAIN graph_data'.edges_dict =
                        {k \in DOMAIN graph_data.edges_dict :
                            /\ graph_data.edges_dict[k]["from"] /= n
                            /\ graph_data.edges_dict[k]["to"] /= n}
                  /\ \A k \in DOMAIN graph_data'.edges_dict :
                        graph_data'.edges_dict[k] = graph_data.edges_dict[k]
                  /\ graph_data'.node_counter = graph_data.node_counter
                  /\ graph_data'.edge_counter = graph_data.edge_counter ]_vars

\* node 1 of two was deleted: of the two edges created, the one on node 2
\* alone is left
C9_CascadeSparedOtherEdge ==
    /\ Answered(response, "DELETE node", 200)
    /\ response.id = 1
    /\ DOMAIN nodes = {2}
    /\ DOMAIN edges = {2}
    /\ nreq = 5

(* C11: every stored edge's from and to are ids of stored nodes, in every    *)
(* state reached by requests served one at a time, updates of an edge that  *)
(* name from or to included.                                                *)
C11_EdgesReferenceStoredNodes ==
    \A edge_id \in DOMAIN edges :
        /\ edges[edge_id]["from"] \in DOMAIN nodes
        /\ edges[edge_id]["to"] \in DOMAIN nodes

(* C12: the id field of every stored node is the key the store holds it     *)
(* under, and so for every stored edge, whatever fields the updates named;  *)
(* hence no two records of get_nodes_list, and no two of get_edges_list,    *)
(* carry the same id.                                                       *)
C12_IdFieldIsTheKey ==
    /\ \A node_id \in DOMAIN nodes : nodes[node_id]["id"] = node_id
    /\ \A edge_id \in DOMAIN edges : edges[edge_id]["id"] = edge_id
    /\ \A m \in DOMAIN nodes, n \in DOMAIN nodes :
            m /= n => nodes[m]["id"] /= nodes[n]["id"]
    /\ \A d \in DOMAIN edges, e \in DOMAIN edges :
            d /= e => edges[d]["id"] /= edges[e]["id"]

\* the counter is at least 1 and above every key of the collection
Above(counter, d) == counter >= 1 /\ \A key \in DOMAIN d : counter > key

(* C13: before and after every request the node counter is at least 1 and   *)
(* greater than the key of every stored node, and the edge counter is at    *)
(* least 1 and greater than the key of every stored edge; a request that    *)
(* creates a node stores it under a key no stored node had, keeps every     *)
(* node that was stored and makes the collection one larger, and a request  *)
(* that creates an edge does the same to the edges.                         *)
C13_AddInsertsUnderFreshKey ==
    [][ /\ Above(graph_data.node_counter, nodes)
        /\ Above(graph_data.edge_counter, edges)
        /\ Above(graph_data.node_counter', nodes')
        /\ Above(graph_data.edge_counter', edges')
        /\ Answered(response', "POST nodes", 201) =>
              /\ graph_data.node_counter \notin DOMAIN nodes
              /\ DOMAIN nodes' = DOMAIN nodes \cup {graph_data.node_counter}
              /\ \A node_id \in DOMAIN nodes : nodes'[node_id] = nodes[node_id]
              /\ Cardinality(DOMAIN nodes') = Cardinality(DOMAIN nodes) + 1
        /\ Answered(response', "POST edges", 201) =>
              /\ graph_data.edge_counter \notin DOMAIN edges
              /\ DOMAIN edges' = DOMAIN edges \cup {graph_data.edge_counter}
              /\ \A edge_id \in DOMAIN edges : edges'[edge_id] = edges[edge_id]
              /\ Cardinality(DOMAIN edges') = Cardinality(DOMAIN edges) + 1
      ]_vars

\* an edge was created under id 2 after edge 1 had been deleted: it is the
\* only edge stored and the edge counter is 3
C13_EdgeAddedToEmptiedStore ==
    /\ Answered(response, "POST edges", 201)
    /\ response.ret["id"] = 2
    /\ DOMAIN edges = {2}
    /\ graph_data.edge_counter = 3

-----------------------------------------------------------------------------
(* Properties of the multi-threaded server *)

AllIdle == \A t \in Threads : pc[t] = "idle"

\* no id occurs twice in the sequence
Distinct(ids) ==
    \A i \in 1 .. Len(ids), j \in 1 .. Len(ids) : i /= j => ids[i] /= ids[j]

\* every record the completed calls returned is stored under the id it was given
Stored(ids, d) ==
    \A i \in 1 .. Len(ids) : ids[i] \in DOMAIN d /\ d[ids[i]]["id"] = ids[i]

(* C10: as long as every call into the store has run from its first step to *)
(* its last without another call running in between (which is what a lock   *)
(* around the store enforces), the add_node calls were given pairwise       *)
(* different ids, every node created is stored, and between calls the node  *)
(* counter has advanced by the number of nodes created; likewise for        *)
(* add_edge.  Without that guarantee the steps of two calls interleave and  *)
(* the state of C10_LostUpdate is reached.                                  *)
C10_SerialCallsLoseNothing ==
    ~overlapped =>
        /\ Distinct(handed.node)
        /\ Distinct(handed.edge)
        /\ Stored(handed.node, nodes)
        /\ Stored(handed.edge, edges)
        /\ AllIdle =>
              /\ graph_data.node_counter = 1 + Len(handed.node)
              /\ graph_data.edge_counter = 1 + Len(handed.edge)
              /\ Cardinality(DOMAIN nodes) = Len(handed.node)
              /\ Cardinality(DOMAIN edges) = Len(handed.edge)

\* two add_node calls and two add_edge calls have completed, interleaved:
\* both nodes were given the same id and one is stored, the node counter
\* advanced by one; and the same happened to the two edges
C10_LostUpdate ==
    /\ AllIdle
    /\ overlapped
    /\ Len(handed.node) = 2 /\ handed.node[1] = handed.node[2]
    /\ Cardinality(DOMAIN nodes) = 1
    /\ graph_data.node_counter = 2
    /\ Len(handed.edge) = 2 /\ handed.edge[1] = handed.edge[2]
    /\ Cardinality(DOMAIN edges) = 1
    /\ graph_data.edge_counter = 2

(* C14: with add_node, add_edge, delete_node and delete_edge only, as long  *)
(* as every call and every reading has run with no other call in progress   *)
(* (which is what a lock around the store enforces), no reader has found an *)
(* edge with a missing end and, between calls, every stored edge has both   *)
(* its ends stored.  Without that guarantee the state of                    *)
(* C14_EdgeOfDeletedNode is reached.                                        *)
C14_SerialCallsKeepEdgesAttached ==
    ~overlapped =>
        /\ ~handed.torn
        /\ AllIdle => unattached(graph_data) = {}

\* both threads are back from their calls, delete_node(1) of one having run
\* between the check and the insertion of add_edge(1, 1) of the other: node
\* 1 is gone and stays gone, an edge from 1 to 1 is stored, and a reader in
\* between found an edge with a missing end
C14_EdgeOfDeletedNode ==
    /\ AllIdle
    /\ overlapped
    /\ 1 \notin DOMAIN nodes
    /\ \E edge_id \in DOMAIN edges :
            edges[edge_id]["from"] = 1 /\ edges[edge_id]["to"] = 1
    /\ handed.torn

====
